---- MODULE Spec2Model ----
(***************************************************************************)
(* A model of these components of src/src/lib.rs:                          *)
(*                                                                         *)
(*   channels::RequestHandler  the request/response relay: a bounded mpsc  *)
(*                             mailbox of (Req, oneshot::Sender<Resp>)     *)
(*                             envelopes consumed by one spawned loop;     *)
(*   streams::FibonacciStream  the lazy Fibonacci sequence and take_n;     *)
(*   shared_state::Counter     the counter behind Arc<Mutex<i32>>;         *)
(*   select                    graceful_shutdown and select_with_timeout.  *)
(*                                                                         *)
(* Each component has a specification of its own, in which the other       *)
(* components stay in their idle state.                                    *)
(*                                                                         *)
(* Every task (a caller of request, the spawned handler loop) advances by  *)
(* one poll per step.  The tokio primitives are modelled by their          *)
(* documented behaviour: mpsc::channel is a FIFO queue guarded by a fair   *)
(* semaphore of `capacity` permits, oneshot is a single-use slot.          *)
(***************************************************************************)
EXTENDS Integers, Sequences, FiniteSets, TLC

VARIABLES
    pc,         \* pc[c]: position of caller c inside request(), c an active caller
    hOf,        \* hOf[c]: the RequestHandler clone caller c borrows (&self), 0 if none
    slot,       \* slot[c]: state of the oneshot channel created by caller c
    slotVal,    \* slotVal[c]: the value stored in the oneshot channel
    result,     \* result[c]: what request() returned to caller c
    mailbox,    \* the mpsc queue: a sequence of envelopes
    waitq,      \* callers suspended in tx.send(), in semaphore (FIFO) order
    handles,    \* the RequestHandler clones (mpsc Senders) that are alive
    nextHandle, \* number of RequestHandler values created so far
    rxClosed,   \* TRUE once the mpsc Receiver has been dropped
    pcLoop,     \* position of the spawned handler loop
    active,     \* envelopes whose handler invocation is in progress
    resp,       \* the local `resp` of the loop body
    admitted,   \* history: callers in the order their envelopes were pushed
    events,     \* history: the loop's invocations and reply fulfilments, in order
    cancels,    \* number of caller futures dropped so far
    loops,      \* number of handler loops spawned so far
    channels,   \* number of mpsc channels created so far
    chanOf,     \* chanOf[h]: the channel RequestHandler h sends on, 0 if h was never made
    queuedAtClose, \* history: envelopes queued when the last clone was dropped, -1 before
    curr,       \* FibonacciStream.curr (u64, as limbs)
    next,       \* FibonacciStream.next (u64, as limbs)
    build,      \* whether the build checks integer overflow
    fpc,        \* position of take_n
    n,          \* take_n's argument n
    count,      \* take_n's local count
    items,      \* take_n's local items
    kind,       \* which Stream take_n was given: the Fibonacci stream or a finite one
    left,       \* items a finite stream has still to yield
    pulls,      \* history: number of stream.next().await evaluations of take_n
    value,      \* the i32 inside Counter.inner
    holder,     \* the task that holds the MutexGuard of Counter.inner, NoTask if none
    lockq,      \* tasks suspended in inner.lock().await, in semaphore (FIFO) order
    tpc,        \* tpc[t]: position of spawned task t inside increment()
    tmp,        \* tmp[t]: the value task t read in `*count += 1`
    nTasks,     \* number of tasks test_counter's loop spawns
    mpc,        \* position of the spawning task
    spawned,    \* tasks spawned so far
    joined,     \* JoinHandles awaited so far
    got,        \* what counter.get().await returned
    waited,     \* history: tasks that were suspended on the lock
    gpc,        \* position of graceful_shutdown
    tickDue,    \* whether `interval` has a tick that is due
    sigQueue,   \* number of () messages queued on shutdown_rx
    senders,    \* number of live Senders of shutdown_rx
    running,    \* number of work() invocations in progress
    sigDuringWork, \* history: shutdown became ready while work() was in progress
    spc,        \* position of select_with_timeout
    futKind,    \* whether the wrapped future can complete at all
    futVal,     \* the output of the wrapped future
    futReady,   \* whether the wrapped future, polled now, would be Ready
    elapsed,    \* whether sleep(timeout) has reached its deadline
    polls,      \* history: number of polls of the wrapped future
    outcome     \* what select_with_timeout returned

rvars == <<pc, hOf, slot, slotVal, result, mailbox, waitq, handles, nextHandle,
           rxClosed, pcLoop, active, resp, admitted, events, cancels,
           loops, channels, chanOf, queuedAtClose>>
wiring == <<loops, channels, chanOf>>
fvars == <<curr, next, build, fpc, n, count, items, kind, left, pulls>>
mvars == <<value, holder, lockq, tpc, tmp, nTasks, mpc, spawned, joined, got, waited>>
gvars == <<gpc, tickDue, sigQueue, senders, running, sigDuringWork>>
tvars == <<spc, futKind, futVal, futReady, elapsed, polls, outcome>>
vars  == <<rvars, fvars, mvars, gvars, tvars>>

\* what the steps of one component leave alone
notRelay    == <<fvars, mvars, gvars, tvars>>
notStream   == <<rvars, mvars, gvars, tvars>>
notCounter  == <<rvars, fvars, gvars, tvars>>
notShutdown == <<rvars, fvars, mvars, tvars>>
notTimeout  == <<rvars, fvars, mvars, gvars>>

----------------------------------------------------------------------------
(* Bounds of the model *)

\* callers that issue request() during a run
MaxActive == 2
\* RequestHandler values (the original and its clones) created during a run
MaxHandles == 2
\* caller futures dropped (cancelled) during a run
MaxCancels == 1

(* Program constants *)

\* mpsc::channel::<..>(32)
Capacity == 32

----------------------------------------------------------------------------
(* The relay: channels::RequestHandler *)

ActiveCallers == 1..MaxActive
\* Earlier callers, whose envelopes may already be queued when a run starts;
\* they have been cancelled since, and only their envelopes are left.
Earlier == (MaxActive + 1)..(MaxActive + Capacity)
Callers == ActiveCallers \cup Earlier

\* The request value of caller c: distinct callers send distinct inputs.
InputOf(c) == c

\* The handler of tests::test_request_handler: |x: i32| async move { x * 2 }
Handler(x) == 2 * x

\* (req, resp_tx): resp_tx is the sending half of caller c's oneshot channel
Envelope(c) == [req |-> InputOf(c), tx |-> c]

NoResult  == [tag |-> "none", val |-> 0]
Ok(v)     == [tag |-> "ok", val |-> v]
RecvError == [tag |-> "closed", val |-> 0]

\* Dropping a oneshot::Sender without sending: the receiver, if any, sees RecvError.
DropTx(s, cs) ==
    [c \in ActiveCallers |-> IF c \in cs /\ s[c] = "open" THEN "txDropped" ELSE s[c]]

\* The state of the oneshot channel whose sender travels in c's envelope; an
\* earlier caller has dropped its receiver.
SlotState(c) == IF c \in ActiveCallers THEN slot[c] ELSE "rxDropped"

SeqToSet(s) == {s[i] : i \in 1..Len(s)}

Remove(s, x) == SelectSeq(s, LAMBDA y : y # x)

IndexOf(s, x) == CHOOSE i \in 1..Len(s) : s[i] = x

\* The queue left by k earlier callers that were cancelled after admission.
EarlierQueue(k) == [i \in 1..k |-> MaxActive + i]

\* RequestHandler::new has run: the channel exists, the loop is spawned and has
\* not been polled yet.  k earlier requests were admitted and then abandoned.
RelayInit ==
    \E k \in {0, Capacity} :
        /\ pc = [c \in ActiveCallers |-> "idle"]
        /\ hOf = [c \in ActiveCallers |-> 0]
        /\ slot = [c \in ActiveCallers |-> "none"]
        /\ slotVal = [c \in ActiveCallers |-> 0]
        /\ result = [c \in ActiveCallers |-> NoResult]
        /\ mailbox = [i \in 1..k |-> Envelope(EarlierQueue(k)[i])]
        /\ admitted = EarlierQueue(k)
        /\ waitq = <<>>
        /\ handles = {1}
        /\ nextHandle = 1
        /\ rxClosed = FALSE
        /\ pcLoop = "recv"
        /\ active = {}
        /\ resp = 0
        /\ events = <<>>
        /\ cancels = 0
        /\ loops = 1
        /\ channels = 1
        /\ chanOf = [h \in 1..MaxHandles |-> IF h = 1 THEN 1 ELSE 0]
        /\ queuedAtClose = -1

RelayIdle ==
    /\ pc = [c \in ActiveCallers |-> "idle"]
    /\ hOf = [c \in ActiveCallers |-> 0]
    /\ slot = [c \in ActiveCallers |-> "none"]
    /\ slotVal = [c \in ActiveCallers |-> 0]
    /\ result = [c \in ActiveCallers |-> NoResult]
    /\ mailbox = <<>>
    /\ admitted = <<>>
    /\ waitq = <<>>
    /\ handles = {}
    /\ nextHandle = 0
    /\ rxClosed = FALSE
    /\ pcLoop = "recv"
    /\ active = {}
    /\ resp = 0
    /\ events = <<>>
    /\ cancels = 0
    /\ loops = 0
    /\ channels = 0
    /\ chanOf = [h \in 1..MaxHandles |-> 0]
    /\ queuedAtClose = -1

\* Clone as it would be if it built a relay of its own: RequestHandler::new
\* again, with a new channel and a new spawned loop.
CloneStartsRelay(h) ==
    /\ h \in handles
    /\ nextHandle < MaxHandles
    /\ nextHandle' = nextHandle + 1
    /\ handles' = handles \cup {nextHandle + 1}
    /\ channels' = channels + 1
    /\ loops' = loops + 1
    /\ chanOf' = [chanOf EXCEPT ![nextHandle + 1] = channels + 1]
    /\ UNCHANGED queuedAtClose
    /\ UNCHANGED <<pc, hOf, slot, slotVal, result, mailbox, waitq, rxClosed,
                   pcLoop, active, resp, admitted, events, cancels>>
    /\ UNCHANGED notRelay

\* impl Clone for RequestHandler: one more Sender on the same channel
\* (tx: self.tx.clone()); nothing is spawned
Clone(h) ==
    /\ h \in handles
    /\ nextHandle < MaxHandles
    /\ nextHandle' = nextHandle + 1
    /\ handles' = handles \cup {nextHandle + 1}
    /\ chanOf' = [chanOf EXCEPT ![nextHandle + 1] = chanOf[h]]
    /\ UNCHANGED <<loops, channels, queuedAtClose>>
    /\ UNCHANGED <<pc, hOf, slot, slotVal, result, mailbox, waitq, rxClosed,
                   pcLoop, active, resp, admitted, events, cancels>>
    /\ UNCHANGED notRelay

\* A RequestHandler value goes out of scope.  request(&self) borrows it, so no
\* request on it is in flight.
DropHandle(h) ==
    /\ h \in handles
    /\ \A c \in ActiveCallers : hOf[c] # h
    /\ handles' = handles \ {h}
    /\ queuedAtClose' = IF handles = {h} THEN Len(mailbox) ELSE queuedAtClose
    /\ UNCHANGED wiring
    /\ UNCHANGED <<pc, hOf, slot, slotVal, result, mailbox, waitq, nextHandle,
                   rxClosed, pcLoop, active, resp, admitted, events, cancels>>
    /\ UNCHANGED notRelay

\* Request as it would be if a failed send kept its envelope alive
\* (`let _e = self.tx.send(..).await;`): the reply slot's sender is not dropped.
RequestKeepsEnvelope(c, h) ==
    /\ c \in ActiveCallers
    /\ pc[c] = "idle"
    /\ h \in handles
    /\ hOf' = [hOf EXCEPT ![c] = h]
    /\ slot' = [slot EXCEPT ![c] = "open"]
    /\ IF rxClosed
         THEN /\ pc' = [pc EXCEPT ![c] = "await"]
              /\ UNCHANGED <<mailbox, waitq, admitted>>
         ELSE IF Len(mailbox) < Capacity /\ waitq = <<>>
         THEN /\ pc' = [pc EXCEPT ![c] = "await"]
              /\ mailbox' = Append(mailbox, Envelope(c))
              /\ admitted' = Append(admitted, c)
              /\ UNCHANGED waitq
         ELSE /\ pc' = [pc EXCEPT ![c] = "blocked"]
              /\ waitq' = Append(waitq, c)
              /\ UNCHANGED <<mailbox, admitted>>
    /\ UNCHANGED <<slotVal, result, handles, nextHandle, rxClosed, pcLoop,
                   active, resp, events, cancels>>
    /\ UNCHANGED <<wiring, queuedAtClose>>
    /\ UNCHANGED notRelay

\* Request as it would be on an unbounded channel: the push never waits.
RequestNoBackpressure(c, h) ==
    /\ c \in ActiveCallers
    /\ pc[c] = "idle"
    /\ h \in handles
    /\ hOf' = [hOf EXCEPT ![c] = h]
    /\ pc' = [pc EXCEPT ![c] = "await"]
    /\ IF rxClosed
         THEN /\ slot' = [slot EXCEPT ![c] = "txDropped"]
              /\ UNCHANGED <<mailbox, admitted>>
         ELSE /\ slot' = [slot EXCEPT ![c] = "open"]
              /\ mailbox' = Append(mailbox, Envelope(c))
              /\ admitted' = Append(admitted, c)
    /\ UNCHANGED <<slotVal, result, waitq, handles, nextHandle, rxClosed, pcLoop,
                   active, resp, events, cancels>>
    /\ UNCHANGED <<wiring, queuedAtClose>>
    /\ UNCHANGED notRelay

\* request(), first poll: the oneshot channel is created and tx.send is polled
\*   let (resp_tx, resp_rx) = oneshot::channel();
\*   let _ = self.tx.send((req, resp_tx)).await;
Request(c, h) ==
    /\ c \in ActiveCallers
    /\ pc[c] = "idle"
    /\ h \in handles
    /\ hOf' = [hOf EXCEPT ![c] = h]
    /\ IF rxClosed
         THEN \* Err(SendError(envelope)); `let _ =` drops the envelope
              /\ pc' = [pc EXCEPT ![c] = "await"]
              /\ slot' = [slot EXCEPT ![c] = "txDropped"]
              /\ UNCHANGED <<mailbox, waitq, admitted>>
         ELSE IF Len(mailbox) < Capacity /\ waitq = <<>>
         THEN \* a permit is free: the envelope is pushed
              /\ pc' = [pc EXCEPT ![c] = "await"]
              /\ slot' = [slot EXCEPT ![c] = "open"]
              /\ mailbox' = Append(mailbox, Envelope(c))
              /\ admitted' = Append(admitted, c)
              /\ UNCHANGED waitq
         ELSE \* no permit: the caller queues on the semaphore
              /\ pc' = [pc EXCEPT ![c] = "blocked"]
              /\ slot' = [slot EXCEPT ![c] = "open"]
              /\ waitq' = Append(waitq, c)
              /\ UNCHANGED <<mailbox, admitted>>
    /\ UNCHANGED <<slotVal, result, handles, nextHandle, rxClosed, pcLoop,
                   active, resp, events, cancels>>
    /\ UNCHANGED <<wiring, queuedAtClose>>
    /\ UNCHANGED notRelay

\* SendWake as it would be if a freed permit did not wake the waiting sender:
\* a caller suspended on the push goes on only when the channel closes.
SendWakeOnlyOnClose(c) ==
    /\ pc[c] = "blocked"
    /\ rxClosed
    /\ pc' = [pc EXCEPT ![c] = "await"]
    /\ slot' = DropTx(slot, {c})
    /\ waitq' = Remove(waitq, c)
    /\ UNCHANGED <<mailbox, admitted>>
    /\ UNCHANGED <<hOf, slotVal, result, handles, nextHandle, rxClosed, pcLoop,
                   active, resp, events, cancels>>
    /\ UNCHANGED <<wiring, queuedAtClose>>
    /\ UNCHANGED notRelay

\* self.tx.send(..).await of a suspended caller, polled again after a wake-up.
\* Freed permits go to the waiters in queue order.
SendWake(c) ==
    /\ pc[c] = "blocked"
    /\ IF rxClosed
         THEN /\ pc' = [pc EXCEPT ![c] = "await"]
              /\ slot' = DropTx(slot, {c})
              /\ waitq' = Remove(waitq, c)
              /\ UNCHANGED <<mailbox, admitted>>
         ELSE /\ IndexOf(waitq, c) <= Capacity - Len(mailbox)
              /\ pc' = [pc EXCEPT ![c] = "await"]
              /\ mailbox' = Append(mailbox, Envelope(c))
              /\ admitted' = Append(admitted, c)
              /\ waitq' = Remove(waitq, c)
              /\ UNCHANGED slot
    /\ UNCHANGED <<hOf, slotVal, result, handles, nextHandle, rxClosed, pcLoop,
                   active, resp, events, cancels>>
    /\ UNCHANGED <<wiring, queuedAtClose>>
    /\ UNCHANGED notRelay

\* resp_rx.await: ready once the slot is fulfilled or its sender is dropped
AwaitPoll(c) ==
    /\ pc[c] = "await"
    /\ slot[c] \in {"full", "txDropped"}
    /\ result' = [result EXCEPT ![c] =
                     IF slot[c] = "full" THEN Ok(slotVal[c]) ELSE RecvError]
    /\ pc' = [pc EXCEPT ![c] = "done"]
    /\ hOf' = [hOf EXCEPT ![c] = 0]
    /\ slot' = [slot EXCEPT ![c] = "closed"]
    /\ UNCHANGED <<slotVal, mailbox, waitq, handles, nextHandle, rxClosed, pcLoop,
                   active, resp, admitted, events, cancels>>
    /\ UNCHANGED <<wiring, queuedAtClose>>
    /\ UNCHANGED notRelay

\* The caller's future is dropped while request() is suspended: resp_rx is
\* dropped, and so is a pending tx.send (with its envelope).
Cancel(c) ==
    /\ pc[c] \in {"blocked", "await"}
    /\ cancels < MaxCancels
    /\ cancels' = cancels + 1
    /\ pc' = [pc EXCEPT ![c] = "cancelled"]
    /\ hOf' = [hOf EXCEPT ![c] = 0]
    /\ slot' = [slot EXCEPT ![c] = IF pc[c] = "await" /\ slot[c] = "open"
                                     THEN "rxDropped" ELSE "closed"]
    /\ waitq' = Remove(waitq, c)
    /\ UNCHANGED <<slotVal, result, mailbox, handles, nextHandle, rxClosed, pcLoop,
                   active, resp, admitted, events>>
    /\ UNCHANGED <<wiring, queuedAtClose>>
    /\ UNCHANGED notRelay

\* Recv as it would be if each invocation ran as a task of its own: the loop
\* pulls the next envelope while an invocation is in progress.
RecvWithoutWaiting ==
    /\ pcLoop \in {"recv", "handling"}
    /\ mailbox # <<>>
    /\ mailbox' = Tail(mailbox)
    /\ active' = active \cup {Head(mailbox)}
    /\ events' = Append(events, <<"invoke", Head(mailbox).tx>>)
    /\ pcLoop' = "handling"
    /\ UNCHANGED <<pc, hOf, slot, slotVal, result, waitq, handles, nextHandle,
                   rxClosed, resp, admitted, cancels>>
    /\ UNCHANGED <<wiring, queuedAtClose>>
    /\ UNCHANGED notRelay

\* Recv as it would be on a stack: the newest envelope is pulled first.
RecvNewestFirst ==
    /\ pcLoop = "recv"
    /\ IF mailbox # <<>>
         THEN /\ mailbox' = SubSeq(mailbox, 1, Len(mailbox) - 1)
              /\ active' = active \cup {mailbox[Len(mailbox)]}
              /\ events' = Append(events, <<"invoke", mailbox[Len(mailbox)].tx>>)
              /\ pcLoop' = "handling"
              /\ UNCHANGED rxClosed
         ELSE /\ handles = {}
              /\ pcLoop' = "done"
              /\ rxClosed' = TRUE
              /\ UNCHANGED <<mailbox, active, events>>
    /\ UNCHANGED <<pc, hOf, slot, slotVal, result, waitq, handles, nextHandle,
                   resp, admitted, cancels>>
    /\ UNCHANGED <<wiring, queuedAtClose>>
    /\ UNCHANGED notRelay

\* Recv as it would be if rx.recv() returned the oldest envelope without
\* taking it out of the queue.
RecvPeeks ==
    /\ pcLoop = "recv"
    /\ IF mailbox # <<>>
         THEN /\ active' = active \cup {Head(mailbox)}
              /\ events' = Append(events, <<"invoke", Head(mailbox).tx>>)
              /\ pcLoop' = "handling"
              /\ UNCHANGED <<rxClosed, mailbox>>
         ELSE /\ handles = {}
              /\ pcLoop' = "done"
              /\ rxClosed' = TRUE
              /\ UNCHANGED <<mailbox, active, events>>
    /\ UNCHANGED <<pc, hOf, slot, slotVal, result, waitq, handles, nextHandle,
                   resp, admitted, cancels>>
    /\ UNCHANGED <<wiring, queuedAtClose>>
    /\ UNCHANGED notRelay

\* Recv as it would be if rx.recv() never returned None: on the empty closed
\* mailbox the loop stays suspended.
RecvWaitsForever ==
    /\ pcLoop = "recv"
    /\ mailbox # <<>>
    /\ mailbox' = Tail(mailbox)
    /\ active' = active \cup {Head(mailbox)}
    /\ events' = Append(events, <<"invoke", Head(mailbox).tx>>)
    /\ pcLoop' = "handling"
    /\ UNCHANGED <<pc, hOf, slot, slotVal, result, waitq, handles, nextHandle,
                   rxClosed, resp, admitted, cancels>>
    /\ UNCHANGED <<wiring, queuedAtClose>>
    /\ UNCHANGED notRelay

\* Recv as it would be with try_recv: an empty mailbox ends the loop.
RecvStopsWhenEmpty ==
    /\ pcLoop = "recv"
    /\ IF mailbox # <<>>
         THEN /\ mailbox' = Tail(mailbox)
              /\ active' = active \cup {Head(mailbox)}
              /\ events' = Append(events, <<"invoke", Head(mailbox).tx>>)
              /\ pcLoop' = "handling"
              /\ UNCHANGED rxClosed
         ELSE /\ pcLoop' = "done"
              /\ rxClosed' = TRUE
              /\ UNCHANGED <<mailbox, active, events>>
    /\ UNCHANGED <<pc, hOf, slot, slotVal, result, waitq, handles, nextHandle,
                   resp, admitted, cancels>>
    /\ UNCHANGED <<wiring, queuedAtClose>>
    /\ UNCHANGED notRelay

\* while let Some((req, response_tx)) = rx.recv().await { handler(req) ...
\* recv yields the oldest envelope; None once every Sender is gone and the
\* queue is empty, which ends the loop and drops rx.
Recv ==
    /\ pcLoop = "recv"
    /\ IF mailbox # <<>>
         THEN /\ mailbox' = Tail(mailbox)
              /\ active' = active \cup {Head(mailbox)}
              /\ events' = Append(events, <<"invoke", Head(mailbox).tx>>)
              /\ pcLoop' = "handling"
              /\ UNCHANGED rxClosed
         ELSE /\ handles = {}
              /\ pcLoop' = "done"
              /\ rxClosed' = TRUE
              /\ UNCHANGED <<mailbox, active, events>>
    /\ UNCHANGED <<pc, hOf, slot, slotVal, result, waitq, handles, nextHandle,
                   resp, admitted, cancels>>
    /\ UNCHANGED <<wiring, queuedAtClose>>
    /\ UNCHANGED notRelay

\* let resp = handler(req).await;   the invocation completes
HandlerReturn ==
    /\ pcLoop = "handling"
    /\ \E e \in active :
        /\ resp' = Handler(e.req)
        /\ pcLoop' = "reply"
    /\ UNCHANGED <<pc, hOf, slot, slotVal, result, mailbox, waitq, handles,
                   nextHandle, rxClosed, active, admitted, events, cancels>>
    /\ UNCHANGED <<wiring, queuedAtClose>>
    /\ UNCHANGED notRelay

\* Reply as it would be if the loop answered on a channel shared by the
\* callers: the response goes to whichever caller is waiting.
ReplyToAnyWaiter ==
    /\ pcLoop = "reply"
    /\ \E e \in active :
        /\ \/ \E c \in ActiveCallers :
                /\ slot[c] = "open"
                /\ slot' = [slot EXCEPT ![c] = "full"]
                /\ slotVal' = [slotVal EXCEPT ![c] = resp]
           \/ /\ \A c \in ActiveCallers : slot[c] # "open"
              /\ UNCHANGED <<slot, slotVal>>
        /\ active' = active \ {e}
        /\ events' = Append(events, <<"reply", e.tx>>)
    /\ pcLoop' = "recv"
    /\ UNCHANGED <<pc, hOf, result, mailbox, waitq, handles, nextHandle, rxClosed,
                   resp, admitted, cancels>>
    /\ UNCHANGED <<wiring, queuedAtClose>>
    /\ UNCHANGED notRelay

\* Reply as it would be with response_tx.send(resp).unwrap(): a dropped
\* receiver panics the loop.
ReplyUnwrap ==
    /\ pcLoop = "reply"
    /\ \E e \in active :
        IF SlotState(e.tx) = "open"
          THEN /\ slot' = [slot EXCEPT ![e.tx] = "full"]
               /\ slotVal' = [slotVal EXCEPT ![e.tx] = resp]
               /\ active' = active \ {e}
               /\ events' = Append(events, <<"reply", e.tx>>)
               /\ pcLoop' = "recv"
               /\ UNCHANGED <<mailbox, rxClosed>>
          ELSE /\ slot' = DropTx(slot, {x.tx : x \in SeqToSet(mailbox)})
               /\ active' = {}
               /\ mailbox' = <<>>
               /\ rxClosed' = TRUE
               /\ pcLoop' = "panicked"
               /\ UNCHANGED <<slotVal, events>>
    /\ UNCHANGED <<pc, hOf, result, waitq, handles, nextHandle, resp, admitted,
                   cancels>>
    /\ UNCHANGED <<wiring, queuedAtClose>>
    /\ UNCHANGED notRelay

\* let _ = response_tx.send(resp);   Err(resp) when the receiver is gone
Reply ==
    /\ pcLoop = "reply"
    /\ \E e \in active :
        /\ IF SlotState(e.tx) = "open"
             THEN /\ slot' = [slot EXCEPT ![e.tx] = "full"]
                  /\ slotVal' = [slotVal EXCEPT ![e.tx] = resp]
             ELSE UNCHANGED <<slot, slotVal>>
        /\ active' = active \ {e}
        /\ events' = Append(events, <<"reply", e.tx>>)
    /\ pcLoop' = "recv"
    /\ UNCHANGED <<pc, hOf, result, mailbox, waitq, handles, nextHandle, rxClosed,
                   resp, admitted, cancels>>
    /\ UNCHANGED <<wiring, queuedAtClose>>
    /\ UNCHANGED notRelay

\* HandlerPanic as it would be if the receiver outlived the loop's task: the
\* queued envelopes are not dropped.
HandlerPanicKeepsQueue ==
    /\ pcLoop = "handling"
    /\ pcLoop' = "panicked"
    /\ rxClosed' = TRUE
    /\ slot' = DropTx(slot, {e.tx : e \in active})
    /\ active' = {}
    /\ UNCHANGED <<pc, hOf, slotVal, result, mailbox, waitq, handles, nextHandle,
                   resp, admitted, events, cancels>>
    /\ UNCHANGED <<wiring, queuedAtClose>>
    /\ UNCHANGED notRelay

\* handler(req) panics: the task unwinds, dropping response_tx and rx; dropping
\* rx closes the channel and drops every queued envelope.
HandlerPanic ==
    /\ pcLoop = "handling"
    /\ pcLoop' = "panicked"
    /\ rxClosed' = TRUE
    /\ slot' = DropTx(slot, {e.tx : e \in active} \cup {e.tx : e \in SeqToSet(mailbox)})
    /\ active' = {}
    /\ mailbox' = <<>>
    /\ UNCHANGED <<pc, hOf, slotVal, result, waitq, handles, nextHandle, resp,
                   admitted, events, cancels>>
    /\ UNCHANGED <<wiring, queuedAtClose>>
    /\ UNCHANGED notRelay

RelayNext ==
    \/ \E h \in 1..MaxHandles : Clone(h)
    \/ \E h \in 1..MaxHandles : DropHandle(h)
    \/ \E c \in ActiveCallers, h \in 1..MaxHandles : Request(c, h)
    \/ \E c \in ActiveCallers : SendWake(c)
    \/ \E c \in ActiveCallers : AwaitPoll(c)
    \/ \E c \in ActiveCallers : Cancel(c)
    \/ Recv
    \/ HandlerReturn
    \/ Reply
    \/ HandlerPanic

----------------------------------------------------------------------------
(* The stream: streams::FibonacciStream and streams::take_n *)

\* A u64 is four 16-bit limbs, least significant first; a natural number of
\* any size is a limb sequence without leading zero limbs (its canonical form).
Base == 65536
Limbs == 4

\* the longest take_n(stream, n) of a run
MaxTake == 96
\* the most items a finite stream given to take_n holds
MaxFinite == 3

RECURSIVE AddLimbs(_, _, _)
\* a + b + carry on limb sequences of any lengths
AddLimbs(a, b, carry) ==
    IF a = <<>> /\ b = <<>>
      THEN IF carry = 0 THEN <<>> ELSE <<carry>>
      ELSE LET x == IF a = <<>> THEN 0 ELSE Head(a)
               y == IF b = <<>> THEN 0 ELSE Head(b)
               s == x + y + carry
           IN  <<s % Base>> \o AddLimbs(IF a = <<>> THEN a ELSE Tail(a),
                                        IF b = <<>> THEN b ELSE Tail(b),
                                        s \div Base)

RECURSIVE Canon(_)
\* the natural number a limb sequence denotes, in canonical form
Canon(a) ==
    IF a = <<>> THEN a
    ELSE IF a[Len(a)] = 0 THEN Canon(SubSeq(a, 1, Len(a) - 1)) ELSE a

\* the u64 of a number below Base
U64(x) == <<x, 0, 0, 0>>

\* u64 `+`: the sum modulo 2^64, and whether it overflowed
Overflows(a, b) == Len(AddLimbs(a, b, 0)) > Limbs
WrappingAdd(a, b) == SubSeq(AddLimbs(a, b, 0), 1, Limbs)

\* poll_next as it would be if it yielded the advanced value: the sequence
\* would start 1, 1, 2, 3, ...
PollNextYieldsAdvanced(c, x, checked) ==
    IF Overflows(c, x) /\ checked
      THEN [panic |-> TRUE, item |-> x, curr |-> x, next |-> x]
      ELSE [panic |-> FALSE, item |-> x, curr |-> x, next |-> WrappingAdd(c, x)]

\* Stream::poll_next for FibonacciStream, on state (c, x): always
\* Poll::Ready(Some(current)).  `current + next` wraps when the build does not
\* check overflow and panics when it does, after self.curr has been assigned.
PollNext(c, x, checked) ==
    IF Overflows(c, x) /\ checked
      THEN [panic |-> TRUE, item |-> c, curr |-> x, next |-> x]
      ELSE [panic |-> FALSE, item |-> c, curr |-> x, next |-> WrappingAdd(c, x)]

\* FibonacciStream::new() has run; the build profile is fixed.
StreamInit ==
    /\ curr = U64(0)
    /\ next = U64(1)
    /\ build \in {"debug", "release"}
    /\ fpc = "idle"
    /\ n = 0
    /\ count = 0
    /\ items = <<>>
    /\ kind = "fib"
    /\ left = 0
    /\ pulls = 0

StreamIdle ==
    /\ curr = U64(0)
    /\ next = U64(1)
    /\ build = "release"
    /\ fpc = "idle"
    /\ n = 0
    /\ count = 0
    /\ items = <<>>
    /\ kind = "fib"
    /\ left = 0
    /\ pulls = 0

\* take_n is generic in its stream (S: Stream + Unpin): it is given either the
\* Fibonacci stream or a stream that ends after `left` items
TakeInit ==
    /\ curr = U64(0)
    /\ next = U64(1)
    /\ build \in {"debug", "release"}
    /\ fpc = "idle"
    /\ n = 0
    /\ count = 0
    /\ items = <<>>
    /\ \/ kind = "fib" /\ left = 0
       \/ kind = "finite" /\ left \in 0..MaxFinite
    /\ pulls = 0

\* poll_next of a stream that yields 0, 1, 2, ... and ends when l items are
\* left to yield: Some(p) while l > 0, None afterwards
PollFinite(l, p) ==
    IF l > 0
      THEN [some |-> TRUE, item |-> U64(p), left |-> l - 1]
      ELSE [some |-> FALSE, item |-> U64(0), left |-> 0]

\* take_n(stream, k) is called: items = Vec::new(), count = 0
TakeN(k) ==
    /\ fpc = "idle"
    /\ fpc' = "loop"
    /\ n' = k
    /\ count' = 0
    /\ items' = <<>>
    /\ UNCHANGED <<curr, next, build, kind, left, pulls>>
    /\ UNCHANGED notStream

\* one evaluation of `while count < n`, with the body's stream.next().await
TakeStep ==
    /\ fpc = "loop"
    /\ IF count < n
         THEN /\ pulls' = pulls + 1
              /\ IF kind = "fib"
                   THEN LET r == PollNext(curr, next, build = "debug")
                        IN  /\ curr' = r.curr
                            /\ next' = r.next
                            /\ IF r.panic
                                 THEN /\ fpc' = "panicked"
                                      /\ UNCHANGED <<items, count>>
                                 ELSE /\ items' = Append(items, r.item)
                                      /\ count' = count + 1
                                      /\ UNCHANGED fpc
                            /\ UNCHANGED left
                   ELSE LET r == PollFinite(left, pulls)
                        IN  /\ left' = r.left
                            /\ IF r.some
                                 THEN /\ items' = Append(items, r.item)
                                      /\ count' = count + 1
                                      /\ UNCHANGED fpc
                                 ELSE \* else { break; }
                                      /\ fpc' = "done"
                                      /\ UNCHANGED <<items, count>>
                            /\ UNCHANGED <<curr, next>>
         ELSE /\ fpc' = "done"
              /\ UNCHANGED <<curr, next, items, count, left, pulls>>
    /\ UNCHANGED <<n, build, kind>>
    /\ UNCHANGED notStream

StreamNext ==
    \/ \E k \in 0..MaxTake : TakeN(k)
    \/ TakeStep

----------------------------------------------------------------------------
(* shared_state::Counter, driven as in tests::test_counter *)

\* tasks spawned on one Counter during a run
MaxTasks == 3

Tasks == 1..MaxTasks
NoTask == 0
NoValue == -1

\* Counter::new(0) has run; the spawning task is about to enter its loop
CounterInit ==
    /\ value = 0
    /\ holder = NoTask
    /\ lockq = <<>>
    /\ tpc = [t \in Tasks |-> "unspawned"]
    /\ tmp = [t \in Tasks |-> 0]
    /\ nTasks \in 1..MaxTasks
    /\ mpc = "spawn"
    /\ spawned = 0
    /\ joined = 0
    /\ got = NoValue
    /\ waited = {}

CounterIdle ==
    /\ value = 0
    /\ holder = NoTask
    /\ lockq = <<>>
    /\ tpc = [t \in Tasks |-> "unspawned"]
    /\ tmp = [t \in Tasks |-> 0]
    /\ nTasks = 0
    /\ mpc = "idle"
    /\ spawned = 0
    /\ joined = 0
    /\ got = NoValue
    /\ waited = {}

\* one iteration of `for _ in 0..N`: counter.clone(), tokio::spawn(..)
SpawnTask ==
    /\ mpc = "spawn"
    /\ spawned < nTasks
    /\ spawned' = spawned + 1
    /\ tpc' = [tpc EXCEPT ![spawned + 1] = "start"]
    /\ UNCHANGED <<value, holder, lockq, tmp, nTasks, mpc, joined, got, waited>>
    /\ UNCHANGED notCounter

\* the spawning loop is over: the task goes on to await the JoinHandles
SpawnDone ==
    /\ mpc = "spawn"
    /\ spawned = nTasks
    /\ mpc' = "join"
    /\ UNCHANGED <<value, holder, lockq, tpc, tmp, nTasks, spawned, joined, got, waited>>
    /\ UNCHANGED notCounter

\* increment as it would be if it did not take the lock: the read-modify-write
\* starts at once
LockNotTaken(t) ==
    /\ tpc[t] = "start"
    /\ tpc' = [tpc EXCEPT ![t] = "locked"]
    /\ UNCHANGED <<value, holder, lockq, tmp, nTasks, mpc, spawned, joined, got, waited>>
    /\ UNCHANGED notCounter

\* increment, first poll of self.inner.lock().await: the guard is taken if the
\* lock is free, else the task joins the queue of the lock
Lock(t) ==
    /\ tpc[t] = "start"
    /\ IF holder = NoTask
         THEN /\ holder' = t
              /\ tpc' = [tpc EXCEPT ![t] = "locked"]
              /\ UNCHANGED <<lockq, waited>>
         ELSE /\ lockq' = Append(lockq, t)
              /\ tpc' = [tpc EXCEPT ![t] = "waiting"]
              /\ waited' = waited \cup {t}
              /\ UNCHANGED holder
    /\ UNCHANGED <<value, tmp, nTasks, mpc, spawned, joined, got>>
    /\ UNCHANGED notCounter

\* increment, a later poll of self.inner.lock().await: the lock was handed to t
LockWake(t) ==
    /\ tpc[t] = "waiting"
    /\ holder = t
    /\ tpc' = [tpc EXCEPT ![t] = "locked"]
    /\ UNCHANGED <<value, holder, lockq, tmp, nTasks, mpc, spawned, joined, got, waited>>
    /\ UNCHANGED notCounter

\* `*count += 1`, the load
Read(t) ==
    /\ tpc[t] = "locked"
    /\ tmp' = [tmp EXCEPT ![t] = value]
    /\ tpc' = [tpc EXCEPT ![t] = "read"]
    /\ UNCHANGED <<value, holder, lockq, nTasks, mpc, spawned, joined, got, waited>>
    /\ UNCHANGED notCounter

\* `*count += 1`, the store
Write(t) ==
    /\ tpc[t] = "read"
    /\ value' = tmp[t] + 1
    /\ tpc' = [tpc EXCEPT ![t] = "written"]
    /\ UNCHANGED <<holder, lockq, tmp, nTasks, mpc, spawned, joined, got, waited>>
    /\ UNCHANGED notCounter

\* end of increment: the guard `count` is dropped, the lock passes to the
\* first task of the queue, and the spawned task is finished
Unlock(t) ==
    /\ tpc[t] = "written"
    /\ tpc' = [tpc EXCEPT ![t] = "finished"]
    /\ IF holder = t
         THEN IF lockq = <<>>
                THEN /\ holder' = NoTask
                     /\ UNCHANGED lockq
                ELSE /\ holder' = Head(lockq)
                     /\ lockq' = Tail(lockq)
         ELSE UNCHANGED <<holder, lockq>>
    /\ UNCHANGED <<value, tmp, nTasks, mpc, spawned, joined, got, waited>>
    /\ UNCHANGED notCounter

\* handle.await.unwrap() of the next JoinHandle, in spawning order
Join ==
    /\ mpc = "join"
    /\ joined < nTasks
    /\ tpc[joined + 1] = "finished"
    /\ joined' = joined + 1
    /\ UNCHANGED <<value, holder, lockq, tpc, tmp, nTasks, mpc, spawned, got, waited>>
    /\ UNCHANGED notCounter

\* counter.get().await once every handle is joined: lock, copy the value,
\* drop the guard; the call stays suspended while another task holds the lock
Get ==
    /\ mpc = "join"
    /\ joined = nTasks
    /\ holder = NoTask
    /\ got' = value
    /\ mpc' = "done"
    /\ UNCHANGED <<value, holder, lockq, tpc, tmp, nTasks, spawned, joined, waited>>
    /\ UNCHANGED notCounter

CounterNext ==
    \/ SpawnTask
    \/ SpawnDone
    \/ \E t \in Tasks : Lock(t)
    \/ \E t \in Tasks : LockWake(t)
    \/ \E t \in Tasks : Read(t)
    \/ \E t \in Tasks : Write(t)
    \/ \E t \in Tasks : Unlock(t)
    \/ Join
    \/ Get

----------------------------------------------------------------------------
(* select::graceful_shutdown *)

\* Senders of the shutdown channel
MaxSenders == 2
\* messages the shutdown channel holds (its capacity is the caller's choice)
MaxSignals == 1

\* graceful_shutdown has been called and has created its interval, whose
\* first tick is due at once
ShutdownInit ==
    /\ gpc = "select"
    /\ tickDue = TRUE
    /\ sigQueue = 0
    /\ senders \in 1..MaxSenders
    /\ running = 0
    /\ sigDuringWork = FALSE

ShutdownIdle ==
    /\ gpc = "idle"
    /\ tickDue = FALSE
    /\ sigQueue = 0
    /\ senders = 0
    /\ running = 0
    /\ sigDuringWork = FALSE

\* shutdown_rx.recv() polled now would be Ready: Some(()) or None
ShutdownReady == sigQueue > 0 \/ senders = 0

\* a holder of a Sender sends the shutdown signal
Signal ==
    /\ gpc \in {"select", "work"}
    /\ senders > 0
    /\ sigQueue < MaxSignals
    /\ sigQueue' = sigQueue + 1
    /\ sigDuringWork' = (sigDuringWork \/ (gpc = "work" /\ ~ShutdownReady))
    /\ UNCHANGED <<gpc, tickDue, senders, running>>
    /\ UNCHANGED notShutdown

\* a Sender is dropped
DropSender ==
    /\ gpc \in {"select", "work"}
    /\ senders > 0
    /\ senders' = senders - 1
    /\ sigDuringWork' = (sigDuringWork \/ (gpc = "work" /\ ~ShutdownReady /\ senders = 1))
    /\ UNCHANGED <<gpc, tickDue, sigQueue, running>>
    /\ UNCHANGED notShutdown

\* time passes: the next tick of the interval becomes due
TickElapses ==
    /\ gpc \in {"select", "work"}
    /\ ~tickDue
    /\ tickDue' = TRUE
    /\ UNCHANGED <<gpc, sigQueue, senders, running, sigDuringWork>>
    /\ UNCHANGED notShutdown

\* select! takes the branch `_ = interval.tick()`: work() is called
SelectTick ==
    /\ gpc = "select"
    /\ tickDue
    /\ tickDue' = FALSE
    /\ gpc' = "work"
    /\ running' = running + 1
    /\ UNCHANGED <<sigQueue, senders, sigDuringWork>>
    /\ UNCHANGED notShutdown

\* work().await completes: back to the top of the loop
WorkDone ==
    /\ gpc = "work"
    /\ running' = running - 1
    /\ gpc' = "select"
    /\ UNCHANGED <<tickDue, sigQueue, senders, sigDuringWork>>
    /\ UNCHANGED notShutdown

\* select! as it would be with `biased;`: the branches are polled in source
\* order, so the shutdown branch is taken only when no tick is due.
SelectShutdownBiased ==
    /\ gpc = "select"
    /\ ~tickDue
    /\ ShutdownReady
    /\ sigQueue' = IF sigQueue > 0 THEN sigQueue - 1 ELSE sigQueue
    /\ gpc' = "returned"
    /\ UNCHANGED <<tickDue, senders, running, sigDuringWork>>
    /\ UNCHANGED notShutdown

\* select! takes the branch `_ = shutdown_rx.recv()` (Some(()) or None): break
SelectShutdown ==
    /\ gpc = "select"
    /\ ShutdownReady
    /\ sigQueue' = IF sigQueue > 0 THEN sigQueue - 1 ELSE sigQueue
    /\ gpc' = "returned"
    /\ UNCHANGED <<tickDue, senders, running, sigDuringWork>>
    /\ UNCHANGED notShutdown

ShutdownNext ==
    \/ Signal
    \/ DropSender
    \/ TickElapses
    \/ SelectTick
    \/ WorkDone
    \/ SelectShutdown

\* Each work() invocation terminates.  select! polls its branches starting
\* from a randomly chosen one, so a shutdown branch that is ready every time
\* the loop comes round is taken in the end.
ShutdownFairness ==
    /\ WF_vars(WorkDone)
    /\ SF_vars(SelectShutdown)

----------------------------------------------------------------------------
(* select::select_with_timeout *)

\* polls of the wrapped future that find it pending
MaxPolls == 2
\* outputs of the wrapped future
FutureOutputs == {1, 2}

NoOutcome == [tag |-> "none", val |-> 0]
Timeout == [tag |-> "err", val |-> 0]

\* before the call: the wrapped future is one that completes at some time with
\* some output, or one that never completes
TimeoutInit ==
    /\ spc = "idle"
    /\ futKind \in {"completes", "never"}
    /\ futVal \in FutureOutputs
    /\ futReady = FALSE
    /\ elapsed = FALSE
    /\ polls = 0
    /\ outcome = NoOutcome

TimeoutIdle ==
    /\ spc = "idle"
    /\ futKind = "never"
    /\ futVal = 1
    /\ futReady = FALSE
    /\ elapsed = FALSE
    /\ polls = 0
    /\ outcome = NoOutcome

\* select_with_timeout(future, timeout) is called: sleep(timeout) starts
CallSelect ==
    /\ spc = "idle"
    /\ spc' = "select"
    /\ UNCHANGED <<futKind, futVal, futReady, elapsed, polls, outcome>>
    /\ UNCHANGED notTimeout

\* what the wrapped future waits for happens: its next poll is Ready
FutureBecomesReady ==
    /\ spc \in {"idle", "select"}
    /\ futKind = "completes"
    /\ ~futReady
    /\ futReady' = TRUE
    /\ UNCHANGED <<spc, futKind, futVal, elapsed, polls, outcome>>
    /\ UNCHANGED notTimeout

\* time passes: the deadline of sleep(timeout) is reached
TimerElapses ==
    /\ spc = "select"
    /\ ~elapsed
    /\ elapsed' = TRUE
    /\ UNCHANGED <<spc, futKind, futVal, futReady, polls, outcome>>
    /\ UNCHANGED notTimeout

\* a poll of select! that finds both branches pending
PollPending ==
    /\ spc = "select"
    /\ ~futReady /\ ~elapsed
    /\ polls < MaxPolls
    /\ polls' = polls + 1
    /\ UNCHANGED <<spc, futKind, futVal, futReady, elapsed, outcome>>
    /\ UNCHANGED notTimeout

\* a poll of select! that takes `result = future => Ok(result)`: the future
\* is polled (before or after a pending sleep, or before an elapsed one)
PollFuture ==
    /\ spc = "select"
    /\ futReady
    /\ polls' = polls + 1
    /\ outcome' = Ok(futVal)
    /\ spc' = "returned"
    /\ UNCHANGED <<futKind, futVal, futReady, elapsed>>
    /\ UNCHANGED notTimeout

\* select! as it would be if the second branch were `else => Err(())`: the
\* call gives up as soon as the future is found pending.
PollTimeoutEarly ==
    /\ spc = "select"
    /\ \/ polls' = polls
       \/ ~futReady /\ polls' = polls + 1
    /\ outcome' = Timeout
    /\ spc' = "returned"
    /\ UNCHANGED <<futKind, futVal, futReady, elapsed>>
    /\ UNCHANGED notTimeout

\* a poll of select! that takes `_ = sleep(timeout) => Err(())`: the sleep is
\* polled first, or after the future was polled and found pending
PollTimeout ==
    /\ spc = "select"
    /\ elapsed
    /\ \/ polls' = polls
       \/ ~futReady /\ polls' = polls + 1
    /\ outcome' = Timeout
    /\ spc' = "returned"
    /\ UNCHANGED <<futKind, futVal, futReady, elapsed>>
    /\ UNCHANGED notTimeout

TimeoutNext ==
    \/ CallSelect
    \/ FutureBecomesReady
    \/ TimerElapses
    \/ PollPending
    \/ PollFuture
    \/ PollTimeout

\* Time advances, and the runtime polls select_with_timeout again when the
\* future or the sleep has woken it.
TimeoutFairness ==
    /\ WF_vars(TimerElapses)
    /\ WF_vars(PollFuture \/ PollTimeout)

SelectNext == ShutdownNext \/ TimeoutNext

----------------------------------------------------------------------------

Init == RelayInit /\ StreamIdle /\ CounterIdle /\ ShutdownIdle /\ TimeoutIdle

Next == RelayNext

Spec == Init /\ [][Next]_vars

\* The runtime polls every task that has been woken: the spawned loop goes on
\* when an envelope arrives or the channel closes, a handler invocation that
\* terminates returns, and a caller goes on when its permit or its reply is
\* there.
Fairness ==
    /\ WF_vars(Recv)
    /\ WF_vars(HandlerReturn)
    /\ WF_vars(Reply)
    /\ \A c \in ActiveCallers : WF_vars(SendWake(c)) /\ WF_vars(AwaitPoll(c))

FairSpec == Init /\ [][Next]_vars /\ Fairness

StreamSpecInit == RelayIdle /\ StreamInit /\ CounterIdle /\ ShutdownIdle /\ TimeoutIdle

StreamSpec == StreamSpecInit /\ [][StreamNext]_vars

TakeSpecInit == RelayIdle /\ TakeInit /\ CounterIdle /\ ShutdownIdle /\ TimeoutIdle

TakeSpec == TakeSpecInit /\ [][StreamNext]_vars

CounterSpecInit == RelayIdle /\ StreamIdle /\ CounterInit /\ ShutdownIdle /\ TimeoutIdle

CounterSpec == CounterSpecInit /\ [][CounterNext]_vars

SelectSpecInit == RelayIdle /\ StreamIdle /\ CounterIdle /\ ShutdownInit /\ TimeoutInit

SelectSpec ==
    SelectSpecInit /\ [][SelectNext]_vars /\ ShutdownFairness /\ TimeoutFairness

----------------------------------------------------------------------------
(* Vocabulary of the properties *)

LoopAlive == pcLoop \in {"recv", "handling", "reply"}

InvokedSet == {events[i][2] : i \in {j \in 1..Len(events) : events[j][1] = "invoke"}}
RepliedSet == {events[i][2] : i \in {j \in 1..Len(events) : events[j][1] = "reply"}}

InvokeCount(c) == Cardinality({i \in 1..Len(events) : events[i] = <<"invoke", c>>})
TotalInvokes == Cardinality({i \in 1..Len(events) : events[i][1] = "invoke"})

\* envelopes the loop has pulled so far
Pulled == Len(admitted) - Len(mailbox)

----------------------------------------------------------------------------
\* C1: while the handler loop has not died, every request that returned has
\* returned Ok(handler(its own input)), its envelope was handled exactly once,
\* and the handler has been invoked exactly once per envelope pulled from the
\* mailbox: N returned requests mean N invocations.
C1_OwnResponseExactlyOnce ==
    pcLoop # "panicked" =>
        /\ \A c \in ActiveCallers :
              pc[c] = "done" =>
                  /\ result[c] = Ok(Handler(InputOf(c)))
                  /\ InvokeCount(c) = 1
        /\ \A c \in Callers : InvokeCount(c) <= 1
        /\ TotalInvokes = Pulled
        /\ (\A c \in ActiveCallers : pc[c] = "done") /\ Len(admitted) = MaxActive
              => TotalInvokes = MaxActive

\* Both callers were admitted before the loop answered either, and both got
\* their answers.
C1_Witness ==
    /\ \A c \in ActiveCallers : pc[c] = "done" /\ result[c] = Ok(Handler(InputOf(c)))
    /\ Len(admitted) = MaxActive
    /\ TotalInvokes = MaxActive
    /\ pcLoop = "recv"

----------------------------------------------------------------------------
\* C2: at most one handler invocation is in progress, and every invocation
\* but the first starts right after the reply of the previous one.
C2_OneInvocationAtATime ==
    /\ Cardinality(active) <= 1
    /\ \A i \in 1..Len(events) :
          events[i][1] = "invoke" => (i = 1 \/ events[i - 1][1] = "reply")
    /\ (pcLoop = "recv" => active = {})

\* An invocation is in progress while another envelope is queued and a
\* caller waits for its reply.
C2_Witness ==
    /\ Cardinality(active) = 1
    /\ pcLoop = "handling"
    /\ mailbox # <<>>
    /\ \A c \in ActiveCallers : pc[c] = "await"

----------------------------------------------------------------------------
\* C3: the loop's history is invoke, reply, invoke, reply, ... over the
\* envelopes in the order of their admission.
C3_AdmissionOrder ==
    \A i \in 1..Len(events) :
        /\ (i + 1) \div 2 <= Len(admitted)
        /\ events[i] = <<IF i % 2 = 1 THEN "invoke" ELSE "reply",
                         admitted[(i + 1) \div 2]>>

\* Caller 2 was admitted before caller 1 and both were handled.
C3_Witness ==
    /\ admitted = <<2, 1>>
    /\ events = <<<<"invoke", 2>>, <<"reply", 2>>, <<"invoke", 1>>, <<"reply", 1>>>>

----------------------------------------------------------------------------
\* the requests whose envelope was never pushed although tx.send was polled
SendFailed(c) == pc[c] \in {"await", "done"} /\ c \notin SeqToSet(admitted)

\* C4: with the receiver gone, a request that had not been admitted is never
\* handled, is not suspended (a suspended sender has been woken, a reply
\* slot's sender has been dropped) and returns RecvError.
C4_ClosedMailboxGivesRecvError ==
    \A c \in ActiveCallers :
        /\ SendFailed(c) => rxClosed
        /\ rxClosed /\ c \notin SeqToSet(admitted) =>
              /\ c \notin InvokedSet
              /\ pc[c] = "blocked" => ENABLED SendWake(c)
              /\ pc[c] = "await" => slot[c] = "txDropped" /\ ENABLED AwaitPoll(c)
              /\ pc[c] = "done" => result[c] = RecvError

\* One request is suspended on the semaphore of the closed mailbox, another
\* has returned RecvError without having been admitted.
C4_Witness ==
    /\ rxClosed
    /\ \E c \in ActiveCallers : pc[c] = "blocked"
    /\ \E c \in ActiveCallers :
          pc[c] = "done" /\ result[c] = RecvError /\ c \notin SeqToSet(admitted)

----------------------------------------------------------------------------
\* C5: after a handler panic the loop is gone, with nothing queued or in
\* progress; a request that had not been answered before the panic gets no
\* value: it has returned RecvError, or is ready to.
C5_PanicFailsPending ==
    pcLoop = "panicked" =>
        /\ rxClosed /\ mailbox = <<>> /\ active = {}
        /\ \A c \in ActiveCallers :
              /\ pc[c] = "blocked" => ENABLED SendWake(c)
              /\ pc[c] = "await" /\ c \notin RepliedSet =>
                    slot[c] = "txDropped" /\ ENABLED AwaitPoll(c)
              /\ pc[c] = "await" /\ c \in RepliedSet => slot[c] = "full"
              /\ pc[c] = "done" /\ c \notin RepliedSet => result[c] = RecvError
              /\ pc[c] = "done" /\ c \in RepliedSet => result[c].tag = "ok"

\* The handler panicked on caller 1's request while caller 2's was queued;
\* both have returned RecvError.
C5_Witness ==
    /\ pcLoop = "panicked"
    /\ admitted = <<1, 2>>
    /\ events = <<<<"invoke", 1>>>>
    /\ \A c \in ActiveCallers : pc[c] = "done" /\ result[c] = RecvError

----------------------------------------------------------------------------
\* C6: the mailbox never holds more than Capacity envelopes.  A request
\* polled while Capacity envelopes are queued is suspended: it gets no result
\* and its envelope is not pushed; it leaves the suspension only with the
\* mailbox closed or below capacity, and is then admitted at the back.
C6_Suspended(c) ==
    pc[c] = "blocked" =>
        /\ c \in SeqToSet(waitq)
        /\ c \notin SeqToSet(admitted)
        /\ result[c] = NoResult
        /\ (Len(mailbox) = Capacity /\ ~rxClosed => ~ENABLED SendWake(c))

C6_Step(c) ==
    /\ (pc[c] = "idle" /\ pc'[c] # "idle" /\ Len(mailbox) = Capacity /\ ~rxClosed)
          => (pc'[c] = "blocked" /\ mailbox' = mailbox /\ result'[c] = NoResult)
    /\ (pc[c] = "blocked" /\ pc'[c] = "await" /\ ~rxClosed)
          => (Len(mailbox) < Capacity /\ mailbox' = Append(mailbox, Envelope(c)))
    /\ (pc[c] = "blocked" /\ pc'[c] = "await" /\ rxClosed)
          => (mailbox' = mailbox /\ slot'[c] = "txDropped")

\* C6: the mailbox holds at most Capacity envelopes in every state, a suspended
\* request stays suspended while the open mailbox is full, and every step of a
\* request respects the capacity.
C6_BoundedMailboxSuspends ==
    /\ [](Len(mailbox) <= Capacity)
    /\ [](\A c \in ActiveCallers : C6_Suspended(c))
    /\ [][\A c \in ActiveCallers : C6_Step(c)]_vars

\* A caller is suspended on the full mailbox while the other, suspended
\* earlier, has been admitted after the loop pulled an envelope.
C6_Witness ==
    /\ Len(mailbox) = Capacity
    /\ ~rxClosed
    /\ \E c \in ActiveCallers : pc[c] = "blocked"
    /\ \E c \in ActiveCallers : pc[c] = "await" /\ mailbox[Capacity] = Envelope(c)

----------------------------------------------------------------------------
\* C7: fulfilling a reply slot whose receiver was dropped changes nothing and
\* leaves the loop running; abandoned envelopes are invoked like any other;
\* requests admitted behind them get their own answer.
C7_ReplyStep ==
    (pcLoop = "reply" /\ pcLoop' # "reply" /\ \E e \in active : SlotState(e.tx) # "open")
        => /\ pcLoop' = "recv"
           /\ ~rxClosed'
           /\ slot' = slot /\ slotVal' = slotVal
           /\ mailbox' = mailbox
           /\ Len(events') = Len(events) + 1

C7_Handled ==
    pcLoop # "panicked" =>
        /\ \A i \in 1..Pulled : admitted[i] \in InvokedSet
        /\ \A c \in ActiveCallers :
              pc[c] = "done" => result[c] = Ok(Handler(InputOf(c)))

\* C7: abandoned envelopes are handled, later requests are answered with their
\* own response, and a reply to an abandoned slot is a no-op that leaves the
\* loop running.
C7_AbandonedReplyIsNoOp ==
    /\ []C7_Handled
    /\ [][C7_ReplyStep]_vars

\* A caller admitted behind abandoned envelopes has been answered, after the
\* loop handled every abandoned envelope before it.
C7_Witness ==
    \E c \in ActiveCallers :
        /\ pc[c] = "done" /\ result[c] = Ok(Handler(InputOf(c)))
        /\ \E i \in 2..Len(admitted) :
              /\ admitted[i] = c
              /\ \A j \in 1..(i - 1) :
                    SlotState(admitted[j]) = "rxDropped" /\ admitted[j] \in RepliedSet

----------------------------------------------------------------------------
\* C8 as stated: while a clone exists or an envelope is queued, the loop is
\* alive.
C8_AliveWhileCloneOrQueued ==
    (handles # {} \/ mailbox # <<>>) => LoopAlive

\* C8, amended: the loop ends without a handler panic only when every clone
\* has been dropped and the mailbox is empty; while a clone exists or an
\* envelope is queued the loop is alive or was ended by a handler panic.
C8_EndsOnlyClosedAndDrained ==
    /\ (handles # {} \/ mailbox # <<>>) => (LoopAlive \/ pcLoop = "panicked")
    /\ pcLoop = "done" => (handles = {} /\ mailbox = <<>> /\ active = {})
    /\ pcLoop = "done" =>
          \A c \in Callers : c \in SeqToSet(admitted) => c \in RepliedSet

\* The loop has ended after every clone was dropped and every queued
\* envelope handled.
C8_Witness ==
    /\ pcLoop = "done"
    /\ handles = {}
    /\ Len(events) >= 2 * Capacity

----------------------------------------------------------------------------
(* The Fibonacci numbers, as natural numbers of any size *)

RECURSIVE FibExtend(_, _)
\* <<F(0), ..., F(j)>> extended to <<F(0), ..., F(m)>>
FibExtend(s, m) ==
    IF Len(s) > m THEN s
    ELSE FibExtend(Append(s, AddLimbs(s[Len(s) - 1], s[Len(s)], 0)), m)

RECURSIVE FibBlocks(_)
\* <<F(0), ..., F(10 * b + 1)>>, built ten numbers at a time
FibBlocks(b) ==
    IF b = 0 THEN << <<>>, <<1>> >> ELSE FibExtend(FibBlocks(b - 1), 10 * b + 1)

FibTable == FibBlocks((MaxTake + 3) \div 10 + 1)

Fib(k) == FibTable[k + 1]

\* whether a natural number is at most 2^64 - 1
FitsU64(x) == Len(x) <= Limbs

----------------------------------------------------------------------------
\* C9 as stated: on a fresh stream every pull k returns F(k) and leaves the
\* state at (F(k+1), F(k+2)), for every k.
C9_EveryPullIsFibonacci ==
    fpc # "panicked" =>
        /\ Len(items) = count
        /\ \A k \in 0..(count - 1) : Canon(items[k + 1]) = Fib(k)
        /\ Canon(curr) = Fib(count)
        /\ Canon(next) = Fib(count + 1)

\* C9, amended: on a fresh stream every pull k with F(k+2) <= 2^64 - 1 (that
\* is, k <= 91) returns F(k) and leaves the state at (F(k+1), F(k+2)); each
\* such pull returns the old curr and sets the state to (old next, old curr +
\* old next); take_n(FibonacciStream::new(), 10) is
\* [0, 1, 1, 2, 3, 5, 8, 13, 21, 34].
C9_PullsInRangeAreFibonacci ==
    /\ (fpc # "panicked" => Len(items) = count)
    /\ \A k \in 0..(Len(items) - 1) :
          FitsU64(Fib(k + 2)) => Canon(items[k + 1]) = Fib(k)
    /\ (fpc # "panicked" /\ (count = 0 \/ FitsU64(Fib(count + 1))))
          => (Canon(curr) = Fib(count) /\ Canon(next) = Fib(count + 1))
    /\ (fpc = "panicked" => ~FitsU64(Fib(Len(items) + 2)))
    /\ (fpc = "done" /\ n = 10)
          => items = <<U64(0), U64(1), U64(1), U64(2), U64(3), U64(5), U64(8),
                       U64(13), U64(21), U64(34)>>

\* Pull 91, the last one whose sum fits, has returned F(91) and left the
\* state at (F(92), F(93)).
C9_Witness ==
    /\ fpc = "loop"
    /\ count = 92
    /\ Canon(items[92]) = Fib(91)
    /\ Canon(curr) = Fib(92)
    /\ Canon(next) = Fib(93)
    /\ FitsU64(Fib(93)) /\ ~FitsU64(Fib(94))

----------------------------------------------------------------------------
\* C10: every pull succeeds: it returns the old curr, and the new state is
\* (old next, (old curr + old next) mod 2^64), also when the sum overflows.
C10_PullStep ==
    (fpc = "loop" /\ count < n)
        => /\ fpc' = "loop"
           /\ items' = Append(items, curr)
           /\ curr' = next
           /\ next' = WrappingAdd(curr, next)

\* C10: every pull of take_n's loop succeeds and wraps modulo 2^64.
C10_PullAlwaysSucceeds == [][C10_PullStep]_vars

----------------------------------------------------------------------------
\* the low 64 bits of a natural number, as a u64
Wrap(x) == [i \in 1..Limbs |-> IF i <= Len(x) THEN x[i] ELSE 0]

\* the items the stream given to take_n yields, in order: item i (from 0)
StreamItem(i) == IF kind = "fib" THEN Wrap(Fib(i)) ELSE U64(i)

\* the length of the stream given to take_n: what is left plus what was taken
\* (a Fibonacci stream never ends)
C11_Shorter == kind = "finite" /\ left + Len(items) < n

\* C11: take_n never aborts; on a stream that does not end before n items it
\* pulls exactly n times and returns exactly n items; on a finite stream of
\* m < n items it returns the m items and stops at the first end-of-data
\* (pull m + 1); n = 0 pulls nothing and returns the empty list; the items
\* returned are the stream's items in pull order.
C11_TakeNReturnsPulledItems ==
    /\ fpc # "panicked"
    /\ \A i \in 1..Len(items) : items[i] = StreamItem(i - 1)
    /\ fpc = "done" =>
          /\ (~C11_Shorter => pulls = n /\ Len(items) = n)
          /\ (C11_Shorter => left = 0 /\ pulls = Len(items) + 1)
          /\ (n = 0 => items = <<>> /\ pulls = 0)

\* C11 where no pull aborts: the same statement for every call of take_n
\* that has not panicked in poll_next.
C11_HoldsUnlessPullPanics ==
    /\ \A i \in 1..Len(items) : items[i] = StreamItem(i - 1)
    /\ fpc = "done" =>
          /\ (~C11_Shorter => pulls = n /\ Len(items) = n)
          /\ (C11_Shorter => left = 0 /\ pulls = Len(items) + 1)
          /\ (n = 0 => items = <<>> /\ pulls = 0)

\* take_n has returned the two items of a finite stream when asked for more
C11_FiniteReached ==
    fpc = "done" /\ kind = "finite" /\ n = 3 /\ Len(items) = 2 /\ pulls = 3

----------------------------------------------------------------------------
\* increments whose store has been done
Stored == {t \in Tasks : tpc[t] \in {"written", "finished"}}

\* C12: N increments on a Counter created with 0, run concurrently through
\* clones in any interleaving and all joined, leave get() returning exactly N;
\* each read-modify-write happens while its task holds the lock, and at any
\* moment the value is the number of increments that have stored.
C12_NoLostUpdate ==
    /\ (mpc = "done" => got = nTasks)
    /\ \A t \in Tasks : tpc[t] \in {"locked", "read", "written"} => holder = t
    /\ value = Cardinality(Stored)

\* MaxTasks increments have contended for the lock, all are joined and get()
\* has returned MaxTasks.
C12_Witness ==
    /\ mpc = "done"
    /\ nTasks = MaxTasks
    /\ joined = MaxTasks
    /\ Cardinality(waited) >= 2
    /\ got = MaxTasks

----------------------------------------------------------------------------
ReplyCount(c) == Cardinality({i \in 1..Len(events) : events[i] = <<"reply", c>>})

\* every envelope is in one place: queued, being handled, or replied to
C13_AtMostOnce ==
    LET invoked == InvokedSet
        replied == RepliedSet
    IN  /\ \A i \in 1..Len(mailbox) : mailbox[i] = Envelope(admitted[Pulled + i])
        /\ \A e \in SeqToSet(mailbox) : e.tx \notin invoked
        /\ \A e \in active : e.tx \in invoked /\ e.tx \notin replied
        /\ replied \subseteq invoked

\* the loop's history grows by one entry at a time, and never by an
\* invocation or a reply it already holds; no caller is admitted twice
C13_LogStep ==
    /\ events' # events
          => /\ Len(events') = Len(events) + 1
             /\ SubSeq(events', 1, Len(events)) = events
             /\ events'[Len(events')] \notin SeqToSet(events)
    /\ admitted' # admitted
          => /\ Len(admitted') = Len(admitted) + 1
             /\ SubSeq(admitted', 1, Len(admitted)) = admitted
             /\ admitted'[Len(admitted')] \notin SeqToSet(admitted)

\* a reply slot changes to fulfilled only from open, in the loop's one reply
\* to its envelope, and its value never changes afterwards
C13_FulfilStep ==
    \A c \in ActiveCallers :
        /\ (slot'[c] = "full" /\ slot[c] # "full")
              => /\ slot[c] = "open"
                 /\ <<"reply", c>> \notin SeqToSet(events)
                 /\ events' = Append(events, <<"reply", c>>)
        /\ slotVal'[c] # slotVal[c] => (slot[c] = "open" /\ slot'[c] = "full")
        /\ slot[c] \in {"full", "closed"} => slot'[c] \in {"full", "closed"}

\* C13: every envelope admitted to the mailbox is pulled by the handler loop
\* at most once and its reply slot is fulfilled at most once, whatever the
\* interleaving of callers, clones and cancellations.
C13_PulledAndFulfilledAtMostOnce ==
    /\ []C13_AtMostOnce
    /\ [][C13_LogStep]_vars
    /\ [][C13_FulfilStep]_vars

\* With a clone made, one caller was answered and the envelope of a
\* cancelled caller was pulled and replied to, each once.
C13_Witness ==
    /\ nextHandle = MaxHandles
    /\ \E c, d \in ActiveCallers :
          /\ pc[c] = "done" /\ result[c] = Ok(Handler(InputOf(c)))
          /\ pc[d] = "cancelled"
          /\ InvokeCount(c) = 1 /\ ReplyCount(c) = 1
          /\ InvokeCount(d) = 1 /\ ReplyCount(d) = 1

----------------------------------------------------------------------------
\* the loop has ended by itself only with no clone left, nothing queued, and
\* every admitted envelope invoked and replied to, one after the other in the
\* order of admission
C14_Drained ==
    pcLoop = "done" =>
        /\ handles = {}
        /\ mailbox = <<>> /\ active = {}
        /\ Len(events) = 2 * Len(admitted)
        /\ \A i \in 1..Len(admitted) :
              /\ events[2 * i - 1] = <<"invoke", admitted[i]>>
              /\ events[2 * i] = <<"reply", admitted[i]>>

\* the loop exits only on the empty mailbox whose senders are all gone
C14_ExitStep ==
    (pcLoop # "done" /\ pcLoop' = "done") => (mailbox = <<>> /\ handles = {})

\* C14: once every clone has been dropped, the loop (scheduled fairly, its
\* handler invocations all returning) handles every envelope still queued, in
\* order, and then terminates: it does not exit while envelopes are queued and
\* it does not stay suspended on the empty closed mailbox.
C14_DrainsThenTerminates ==
    /\ []C14_Drained
    /\ [][C14_ExitStep]_vars
    /\ ([](pcLoop # "panicked")) => ((handles = {}) ~> (pcLoop = "done"))

\* The last clone was dropped with the mailbox full; the loop has handled
\* all Capacity envelopes and then ended.
C14_Witness ==
    /\ pcLoop = "done"
    /\ queuedAtClose = Capacity
    /\ TotalInvokes = Len(admitted)
    /\ Len(admitted) >= Capacity
    /\ mailbox = <<>>

----------------------------------------------------------------------------
\* C15: under fair scheduling every request call eventually returns, with a
\* response or with the channel-closed error (or its future is dropped by the
\* caller), also for callers that found the mailbox full: no caller stays
\* suspended forever on the push or on the reply slot.
C15_EveryRequestReturns ==
    \A c \in ActiveCallers :
        (pc[c] \in {"blocked", "await"}) ~> (pc[c] \in {"done", "cancelled"})

\* A caller that found the mailbox full and was suspended on the push has
\* been answered, and so has the caller behind it.
C15_Witness ==
    /\ Len(admitted) = Capacity + MaxActive
    /\ \A c \in ActiveCallers : pc[c] = "done" /\ result[c] = Ok(Handler(InputOf(c)))

----------------------------------------------------------------------------
\* one loop and one channel exist, and every RequestHandler made so far
\* sends on that channel
C16_SharedWiring ==
    /\ loops = 1 /\ channels = 1
    /\ \A h \in 1..MaxHandles : chanOf[h] = (IF h <= nextHandle THEN 1 ELSE 0)
    /\ handles \subseteq 1..nextHandle
    /\ \A c \in ActiveCallers : hOf[c] # 0 => hOf[c] \in handles

\* a clone step starts nothing and touches neither the mailbox nor the loop
C16_CloneStep ==
    nextHandle' # nextHandle
        => /\ loops' = loops /\ channels' = channels
           /\ mailbox' = mailbox /\ pcLoop' = pcLoop /\ active' = active

\* a push through any clone lands at the back of the one mailbox, and only
\* the loop takes envelopes out and writes its history
C16_AdmitStep ==
    /\ \A c \in ActiveCallers :
          (pc[c] \in {"idle", "blocked"} /\ pc'[c] = "await" /\ slot'[c] = "open")
              => /\ mailbox' = Append(mailbox, Envelope(c))
                 /\ admitted' = Append(admitted, c)
    /\ (events' # events \/ active' # active) => pcLoop' # pcLoop

\* C16: constructing a relay starts exactly one handler loop and one mailbox
\* and cloning starts no further loop or mailbox; a request issued through
\* any clone is admitted to that mailbox and handled by that loop, the only
\* one to run the handler.
C16_ClonesShareOneRelay ==
    /\ []C16_SharedWiring
    /\ [][C16_CloneStep]_vars
    /\ [][C16_AdmitStep]_vars

\* Two requests issued through two different clones are in flight: the loop
\* has answered one and is handling the other.
C16_Witness ==
    \E a, b \in ActiveCallers :
        /\ pc[a] = "await" /\ pc[b] = "await"
        /\ hOf[a] # hOf[b]
        /\ slot[a] = "full" /\ slotVal[a] = Handler(InputOf(a))
        /\ Envelope(b) \in active
        /\ loops = 1

----------------------------------------------------------------------------
\* work() runs only inside the loop's tick branch, one invocation at a time,
\* and none is in progress once graceful_shutdown has returned
C17_NoOverlap ==
    /\ running <= 1
    /\ (running = 1) = (gpc = "work")
    /\ (gpc = "returned" => running = 0)

\* an invocation in progress ends only by completing, whatever arrives on the
\* shutdown channel; the function returns only from the select! with the
\* shutdown branch ready; after that nothing starts
C17_Step ==
    /\ gpc = "work" => (gpc' = "work" \/ (gpc' = "select" /\ running' = running - 1))
    /\ running' > running => (gpc = "select" /\ running = 0)
    /\ (gpc # "returned" /\ gpc' = "returned") => (gpc = "select" /\ ShutdownReady)
    /\ gpc = "returned" => (gpc' = "returned" /\ running' = 0)

\* C17: graceful_shutdown returns once a shutdown signal has been sent or
\* every sender has been dropped, provided each work() invocation terminates;
\* an invocation in progress when the signal arrives runs to completion,
\* invocations never overlap, and none starts after the shutdown branch was
\* taken.
C17_ShutdownIsGraceful ==
    /\ []C17_NoOverlap
    /\ [][C17_Step]_vars
    /\ ShutdownReady ~> (gpc = "returned")

\* The shutdown signal arrived while work() was in progress; that invocation
\* has completed and graceful_shutdown has returned.
C17_Witness ==
    /\ gpc = "returned"
    /\ sigDuringWork
    /\ running = 0

----------------------------------------------------------------------------
\* what was returned: Ok carries the output of a future that has completed,
\* Err comes only with the deadline reached
C18_Outcome ==
    /\ (spc = "returned") = (outcome # NoOutcome)
    /\ outcome.tag = "ok"
          => (futKind = "completes" /\ futReady /\ outcome = Ok(futVal) /\ polls >= 1)
    /\ outcome = Timeout => elapsed
    /\ futKind = "never" => (~futReady /\ outcome.tag # "ok")

\* the outcome is set once; Err is returned on a poll that did not see the
\* future complete; after the return the future is not polled
C18_Step ==
    /\ outcome # NoOutcome => (outcome' = outcome /\ polls' = polls /\ spc' = spc)
    /\ (outcome = NoOutcome /\ outcome' = Timeout)
          => (elapsed /\ (polls' = polls \/ ~futReady))
    /\ (outcome = NoOutcome /\ outcome'.tag = "ok")
          => (futReady /\ outcome' = Ok(futVal) /\ polls' = polls + 1)

\* C18: select_with_timeout returns exactly one outcome: Ok(result) only if
\* the wrapped future completed, with that result, and Err(()) only if the
\* timeout elapsed before the future's completion was observed; a future
\* that never completes still gives Err(()) once the timeout has elapsed, and
\* the future is not polled after the timeout branch was taken.
C18_OneOutcome ==
    /\ []C18_Outcome
    /\ [][C18_Step]_vars
    /\ (spc = "select") ~> (spc = "returned")
    /\ (spc = "select" /\ futKind = "never") ~> (outcome = Timeout)

\* A future that never completes was polled and found pending, the deadline
\* passed, and the call returned Err(()).
C18_Witness ==
    /\ futKind = "never"
    /\ polls >= 1
    /\ elapsed
    /\ spc = "returned"
    /\ outcome = Timeout

====
